---- MODULE Spec2Model ----
(***************************************************************************)
(* Blue/green ECS deployment orchestrator (scripts/deploy.py) and its      *)
(* pre-deployment health gate (scripts/check_vault_health.py).             *)
(*                                                                         *)
(* One orchestration run is modelled as a sequential process whose steps   *)
(* are the external calls and sleeps of deploy.py; the cloud APIs answer   *)
(* nondeterministically.  Time is counted in seconds from the entry of the *)
(* wait that is running (time.time() at entry is 0 on this clock), and it  *)
(* advances only in time.sleep.                                            *)
(*                                                                         *)
(* One run of the gate's CLI is a second sequential process: main's retry  *)
(* loop around run_comprehensive_check, one step per check.                *)
(*                                                                         *)
(* Spec is the orchestrator alone, GateSpec the gate alone, PipelineSpec   *)
(* both scripts under one caller that runs one script at a time.           *)
(* DriftSpec is Spec on a listener that others repoint, ConcurrentSpec is  *)
(* Spec with a second run on the same service and listener.                *)
(***************************************************************************)
EXTENDS Naturals, Sequences, FiniteSets

\* ------------------------------------------------------------------ bounds
MaxTimeoutMinutes == 1      \* DeploymentConfig.timeout_minutes ranges over 0..MaxTimeoutMinutes
MaxDeployments == 2         \* deployments listed by one describe_services response
MaxTargets == 2             \* targets listed by one describe_target_health response
MaxRetryCount == 2          \* the gate's --retry-count ranges over 0..MaxRetryCount

\* ------------------------------------------------------- program constants
PollIntervalSeconds == 30       \* time.sleep(30) of both polling loops
ProbeTimeoutMinutes == 5        \* _wait_for_healthy_targets default budget
PostSwitchTimeoutMinutes == 2   \* budget of the probe after the switch
RetryDelaySeconds == 10         \* time.sleep(10) before each retry of the gate

None == "None"

\* -------------------------------------------------------------- data model
DeploymentStrategy == {"direct", "blue_green"}

TargetGroupArns == {"tg-a", "tg-b", "tg-c"}
ListenerArns == {"lsn"}

DeploymentConfig ==
    [strategy : DeploymentStrategy,
     environment : {"prod"},
     blue_tg_arn : {None, "tg-a"},
     green_tg_arn : {None, "tg-a", "tg-b"},
     listener_arn : {None} \cup ListenerArns,
     timeout_minutes : 0..MaxTimeoutMinutes]

Forward(tg) == [Type |-> "forward", TargetGroupArn |-> tg]
Authenticate == [Type |-> "authenticate-oidc", TargetGroupArn |-> None]
Redirect == [Type |-> "redirect", TargetGroupArn |-> None]

\* Default actions a live listener can have: one forward action, possibly after
\* an authenticate action, or a redirect alone.
ListenerStates ==
    {<<Forward(tg)>> : tg \in TargetGroupArns}
        \cup {<<Authenticate, Forward("tg-b")>>, <<Redirect>>}

RECURSIVE ForwardTarget(_)
\* The target group a listener's default actions forward to (None: it forwards nowhere).
ForwardTarget(actions) ==
    IF actions = <<>> THEN None
    ELSE IF Head(actions).Type = "forward" THEN Head(actions).TargetGroupArn
    ELSE ForwardTarget(Tail(actions))

\* ----------------------------------------------------- cloud API responses
ApiError == [err |-> TRUE]

\* boto3 rejects a None identifier before sending anything; with an identifier the
\* call answers or raises.
DescribeListenersResponses(listener_arn, live) ==
    IF listener_arn = None THEN {ApiError}
    ELSE {ApiError, [err |-> FALSE, DefaultActions |-> live]}

UpdateServiceResponses == {ApiError, [err |-> FALSE]}

DeploymentStatuses == {"PRIMARY", "ACTIVE", "FAILED"}
RolloutStates == {"COMPLETED", "IN_PROGRESS"}
\* The deployments a response lists; the last one is what ECS reports for a rollout
\* that failed.
Deployments ==
    [status : DeploymentStatuses, rolloutState : RolloutStates]
        \cup {[status |-> "PRIMARY", rolloutState |-> "FAILED"]}

SeqsUpTo(S, n) == UNION {[1..k -> S] : k \in 0..n}

\* A service has one PRIMARY deployment at most.
DescribeServicesResponses ==
    {ApiError} \cup
    {[err |-> FALSE, deployments |-> ds] :
        ds \in {d \in SeqsUpTo(Deployments, MaxDeployments) :
                  Cardinality({i \in 1..Len(d) : d[i].status = "PRIMARY"}) <= 1}}

TargetStates == {"healthy", "unhealthy"}

DescribeTargetHealthResponses(tg) ==
    IF tg = None THEN {ApiError}
    ELSE {ApiError} \cup {[err |-> FALSE, states |-> ts] : ts \in SeqsUpTo(TargetStates, MaxTargets)}

ModifyListenerResponses(listener_arn, tg) ==
    IF listener_arn = None \/ tg = None THEN {ApiError}
    ELSE {ApiError, [err |-> FALSE]}

\* ------------------------------------------------------------------- state
\* The configuration of an orchestrator that has not been constructed.
NoConfig ==
    [strategy |-> None, environment |-> None, blue_tg_arn |-> None, green_tg_arn |-> None,
     listener_arn |-> None, timeout_minutes |-> 0]

VARIABLES
    config,          \* the DeploymentConfig of the run
    listener,        \* default actions of the live listener (cloud state)
    listener0,       \* the listener's default actions when the run started
    pc,              \* position of the run in deploy.py
    current_target,  \* self.current_target, set by __init__
    describe_result, \* how describe_listeners ended in __init__
    clock,           \* seconds since the running wait was entered
    timeout,         \* deadline of the running wait on that clock
    response,        \* the response the latest call returned on (a poll that
                     \* sleeps drops its response: the next iteration rebinds it)
    slept_on,        \* what the running wait has slept on: "error", "failed",
                     \* "healthy", "completed"
    log,             \* the update, watcher, probe and switch results, in order
    called,          \* names of the cloud APIs called so far
    raised_by,       \* names of the cloud APIs that have raised in this run
    success,         \* what deploy() returned (read when pc = "done")
    other,           \* a second run on the same service and listener: its
                     \* position, its self.current_target, and how long this
                     \* run's log was when it switched the listener
    \* ---- the gate (check_vault_health.py)
    gpc,             \* position of the gate's CLI
    environment,     \* --environment
    retry_count,     \* --retry-count
    attempt,         \* main's loop variable
    results,         \* run_comprehensive_check's results list
    all_passed,      \* run_comprehensive_check's all_passed
    now_dt,          \* the datetime.now() the deployment-window check read
    answers,         \* what the collaborators answered to the checks of the
                     \* running attempt, in the order of the checks
    waited,          \* seconds main has slept between attempts
    exit_code        \* the code the gate exited with (read when gpc = "exited")

orch_vars == <<config, listener, listener0, pc, current_target, describe_result,
               clock, timeout, response, slept_on, log, called, raised_by, success,
               other>>

gate_vars == <<gpc, environment, retry_count, attempt, results, all_passed, now_dt,
               answers, waited, exit_code>>

vars == <<orch_vars, gate_vars>>

NoResponse == [err |-> FALSE, none |-> TRUE]

NoDatetime == [err |-> FALSE, hour |-> 0, weekday |-> 0, none |-> TRUE]

\* The second run has not been started, or is over.
OtherIdle == [pc |-> "idle", current_target |-> None, switched_at |-> 0]
OtherDone == [pc |-> "done", current_target |-> None, switched_at |-> 0]

\* Neither script has been started.
GateIdle ==
    /\ gpc = "idle"
    /\ environment = None
    /\ retry_count = 0
    /\ attempt = 0
    /\ results = <<>>
    /\ all_passed = TRUE
    /\ now_dt = NoDatetime
    /\ answers = <<>>
    /\ waited = 0
    /\ exit_code = 0

Init ==
    /\ GateIdle
    /\ config = NoConfig
    /\ listener \in ListenerStates
    /\ listener0 = listener
    /\ pc = "idle"
    /\ current_target = None
    /\ describe_result = "not_called"
    /\ clock = 0
    /\ timeout = 0
    /\ response = NoResponse
    /\ slept_on = {}
    /\ log = <<>>
    /\ called = {}
    /\ raised_by = {}
    /\ success = FALSE
    /\ other = OtherIdle

\* ------------------------------------------------------- slot classification
\* Faulty variant: the answer depends on whether the listener was asked before.
ScanDefaultActions_Stateful(actions, blue, green) ==
    IF called = {} THEN "green" ELSE "blue"

RECURSIVE ScanDefaultActions(_, _, _)
\* The for loop of _get_current_target_group over DefaultActions: the first forward
\* action whose target group is the blue or the green one decides; a loop that ends
\* falls through to the default.
ScanDefaultActions(actions, blue, green) ==
    IF actions = <<>> THEN "blue"
    ELSE LET action == Head(actions) IN
         IF action.Type = "forward" /\ action.TargetGroupArn = blue THEN "blue"
         ELSE IF action.Type = "forward" /\ action.TargetGroupArn = green THEN "green"
         ELSE ScanDefaultActions(Tail(actions), blue, green)

\* Faulty variant: green is the default.
_get_current_target_group_DefaultGreen(cfg, resp) ==
    IF cfg.strategy = "direct" THEN "main"
    ELSE IF resp.err THEN "green"
    ELSE ScanDefaultActions(resp.DefaultActions, cfg.blue_tg_arn, cfg.green_tg_arn)

_get_current_target_group(cfg, resp) ==
    IF cfg.strategy = "direct" THEN "main"
    ELSE IF resp.err THEN "blue"
    ELSE ScanDefaultActions(resp.DefaultActions, cfg.blue_tg_arn, cfg.green_tg_arn)

\* Faulty variant: the slot that is active is taken as the one to deploy to.
_get_inactive_target_group_Same(current) == current

_get_inactive_target_group(current) ==
    IF current = "blue" THEN "green" ELSE "blue"

\* inactive_tg_arn of deploy_blue_green
inactive_tg_arn(cfg, current) ==
    IF _get_inactive_target_group(current) = "green" THEN cfg.green_tg_arn
    ELSE cfg.blue_tg_arn

\* The loadBalancers binding _update_service puts in update_params (None: no binding).
UpdateBinding(cfg, target_group_arn) ==
    IF target_group_arn # None /\ cfg.strategy = "blue_green" THEN target_group_arn
    ELSE None

\* ------------------------------------------------------------ polling loops
\* Faulty variant: "while True": the deadline is never looked at.
LoopRuns_Forever(now, deadline) == TRUE

LoopRuns(now, deadline) == now < deadline

Sleep(now, seconds) == now + seconds

\* Faulty variant: the watcher without its check for failed deployments.
WatcherPoll_NoFailedCheck(resp) ==
    IF resp.err THEN "sleep"
    ELSE IF \E i \in 1..Len(resp.deployments) :
                /\ resp.deployments[i].status = "PRIMARY"
                /\ resp.deployments[i].rolloutState = "COMPLETED"
                /\ \A j \in 1..(i - 1) : resp.deployments[j].status # "PRIMARY"
         THEN "true"
         ELSE "sleep"

\* Faulty variant: the test for failed deployments comes first.
WatcherPoll_FailedFirst(resp) ==
    IF resp.err THEN "sleep"
    ELSE LET ds == resp.deployments IN
         IF \E i \in 1..Len(ds) : ds[i].status = "FAILED" THEN "false"
         ELSE IF \E i \in 1..Len(ds) :
                     ds[i].status = "PRIMARY" /\ ds[i].rolloutState = "COMPLETED"
              THEN "true"
         ELSE "sleep"

\* One iteration of the loop of _wait_for_deployment on a response: "true" and
\* "false" return, "sleep" sleeps and iterates.
WatcherPoll(resp) ==
    IF resp.err THEN "sleep"
    ELSE LET ds == resp.deployments
             primaries == {i \in 1..Len(ds) : ds[i].status = "PRIMARY"}
             first == CHOOSE i \in primaries : \A j \in primaries : i <= j
         IN IF primaries # {} /\ ds[first].rolloutState = "COMPLETED" THEN "true"
            ELSE IF \E i \in 1..Len(ds) : ds[i].status = "FAILED" THEN "false"
            ELSE "sleep"

\* Faulty variant: the probe asks for every listed target to be healthy.
ProbePoll_AllHealthy(resp) ==
    IF resp.err THEN "sleep"
    ELSE IF resp.states # <<>> /\ \A i \in 1..Len(resp.states) : resp.states[i] = "healthy"
         THEN "true"
    ELSE "sleep"

\* Faulty variant: a query that raises ends the probe.
ProbePoll_ErrorEnds(resp) ==
    IF resp.err THEN "true"
    ELSE IF \E i \in 1..Len(resp.states) : resp.states[i] = "healthy" THEN "true"
    ELSE "sleep"

\* One iteration of the loop of _wait_for_healthy_targets on a response.
ProbePoll(resp) ==
    IF resp.err THEN "sleep"
    ELSE IF \E i \in 1..Len(resp.states) : resp.states[i] = "healthy" THEN "true"
    ELSE "sleep"

\* What a response shows, for slept_on: an exception, a deployment with status
\* FAILED, a healthy target, a PRIMARY deployment that is COMPLETED.
Shows(resp) ==
    IF resp.err THEN {"error"}
    ELSE {"failed" : i \in {j \in 1..Len(IF "deployments" \in DOMAIN resp THEN resp.deployments ELSE <<>>) :
                                resp.deployments[j].status = "FAILED"}}
         \cup {"healthy" : i \in {j \in 1..Len(IF "states" \in DOMAIN resp THEN resp.states ELSE <<>>) :
                                resp.states[j] = "healthy"}}
         \cup {"completed" : i \in {j \in 1..Len(IF "deployments" \in DOMAIN resp THEN resp.deployments ELSE <<>>) :
                                /\ resp.deployments[j].status = "PRIMARY"
                                /\ resp.deployments[j].rolloutState = "COMPLETED"}}

\* The except branch a call that raises goes through: "logger.error(...)".
Raised(api, resp) == IF resp.err THEN raised_by \cup {api} ELSE raised_by

Event(op, tg, ok) == [op |-> op, tg |-> tg, ok |-> ok]

\* ---------------------------------------------------- the run's control flow
\* deploy() returns: the run is over.
Return(result) ==
    /\ pc' = "done"
    /\ success' = result
    /\ UNCHANGED <<clock, timeout, slept_on>>

\* A wait is entered: timeout = time.time() + timeout_minutes * 60.
EnterWait(position, timeout_minutes) ==
    /\ pc' = position
    /\ clock' = 0
    /\ timeout' = timeout_minutes * 60
    /\ slept_on' = {}
    /\ UNCHANGED success

\* Faulty variant: deploy() runs the blue/green strategy whatever the configured one.
Dispatch_AlwaysBlueGreen(cfg) == "deploy_blue_green"

\* The strategy deploy() dispatches to.
Dispatch(cfg) == IF cfg.strategy = "direct" THEN "deploy_direct" ELSE "deploy_blue_green"

\* Faulty variant: the watcher follows the update whatever it returned.
AfterUpdate_IgnoresResult(ok) ==
    EnterWait("wait_deployment", config.timeout_minutes)

\* Faulty variant: a rejected update is issued again.
AfterUpdate_Retries(ok) ==
    IF ~ok THEN /\ pc' = "deploy"
                /\ UNCHANGED <<success, clock, timeout, slept_on>>
    ELSE EnterWait("wait_deployment", config.timeout_minutes)

\* "if not self._update_service(...): return False", then the watcher.
AfterUpdate(ok) ==
    IF ~ok THEN Return(FALSE)
    ELSE EnterWait("wait_deployment", config.timeout_minutes)

\* Faulty variant: the strategies go on whatever the watcher returned.
AfterWatcher_IgnoresResult(result) ==
    IF config.strategy = "direct" THEN Return(TRUE)
    ELSE EnterWait("wait_healthy_pre", ProbeTimeoutMinutes)

\* Faulty variant: deploy_direct returns True whatever the watcher returned.
AfterWatcher_DirectAlwaysTrue(result) ==
    IF Dispatch(config) = "deploy_direct" THEN Return(TRUE)
    ELSE IF ~result THEN Return(FALSE)
    ELSE EnterWait("wait_healthy_pre", ProbeTimeoutMinutes)

\* "if not self._wait_for_deployment(...): return False"; then deploy_direct returns
\* True and deploy_blue_green enters the probe of the inactive target group.
AfterWatcher(result) ==
    IF ~result THEN Return(FALSE)
    ELSE IF Dispatch(config) = "deploy_direct" THEN Return(TRUE)
    ELSE EnterWait("wait_healthy_pre", ProbeTimeoutMinutes)

\* Faulty variant: the switch follows the first probe whatever it returned.
AfterProbe_IgnoresResult(result) ==
    IF pc = "wait_healthy_pre"
    THEN /\ pc' = "switch_traffic"
         /\ UNCHANGED <<success, clock, timeout, slept_on>>
    ELSE Return(result)

\* "if not self._wait_for_healthy_targets(...): return False"; the first probe is
\* followed by the switch, the one after the switch by "return True".
AfterProbe(result) ==
    IF ~result THEN Return(FALSE)
    ELSE IF pc = "wait_healthy_pre"
         THEN /\ pc' = "switch_traffic"
              /\ UNCHANGED <<success, clock, timeout, slept_on>>
         ELSE Return(TRUE)

\* Faulty variant: deploy_blue_green returns True right after the switch, unverified.
AfterSwitch_NoVerification(ok) ==
    IF ~ok THEN Return(FALSE) ELSE Return(TRUE)

\* Faulty variant: the settle sleep and the second probe follow a failed switch too.
AfterSwitch_IgnoresResult(ok) ==
    /\ pc' = "settle"
    /\ UNCHANGED <<success, clock, timeout, slept_on>>

\* "if not self._switch_traffic(...): return False", then the settle sleep.
AfterSwitch(ok) ==
    IF ~ok THEN Return(FALSE)
    ELSE /\ pc' = "settle"
         /\ UNCHANGED <<success, clock, timeout, slept_on>>

\* ------------------------------------------------------------------ actions
\* VaultDBDeploymentOrchestrator.__init__ with _get_current_target_group
\* for the DeploymentConfig that lambda_handler or the CLI has built.  The caller
\* runs one script at a time: the gate's CLI is not in the middle of a run.
Construct ==
    /\ pc = "idle"
    /\ gpc \in {"idle", "exited"}
    /\ \E cfg \in DeploymentConfig :
        /\ config' = cfg
        /\ IF cfg.strategy = "direct"
           THEN /\ current_target' = _get_current_target_group(cfg, NoResponse)
                /\ UNCHANGED <<response, called, raised_by, describe_result>>
           ELSE \E resp \in DescribeListenersResponses(cfg.listener_arn, listener) :
                    /\ response' = resp
                    /\ called' = called \cup {"describe_listeners"}
                    /\ raised_by' = Raised("describe_listeners", resp)
                    /\ describe_result' = IF resp.err THEN "error" ELSE "ok"
                    /\ current_target' = _get_current_target_group(cfg, resp)
    /\ pc' = "deploy"
    /\ UNCHANGED <<listener, listener0, clock, timeout, slept_on, log, success>>
    /\ UNCHANGED <<gate_vars, other>>

\* _update_service(target_group_arn)
_update_service(target_group_arn) ==
    \E resp \in UpdateServiceResponses :
        /\ response' = resp
        /\ called' = called \cup {"update_service"}
        /\ raised_by' = Raised("update_service", resp)
        /\ log' = Append(log, Event("update", UpdateBinding(config, target_group_arn), ~resp.err))
        /\ AfterUpdate(~resp.err)

\* deploy() -> deploy_direct, up to and including _update_service()
deploy_direct ==
    /\ pc = "deploy"
    /\ Dispatch(config) = "deploy_direct"
    /\ _update_service(None)
    /\ UNCHANGED <<config, listener, listener0, current_target, describe_result>>
    /\ UNCHANGED <<gate_vars, other>>

\* deploy() -> deploy_blue_green, up to and including _update_service(inactive_tg_arn)
deploy_blue_green ==
    /\ pc = "deploy"
    /\ Dispatch(config) = "deploy_blue_green"
    /\ _update_service(inactive_tg_arn(config, current_target))
    /\ UNCHANGED <<config, listener, listener0, current_target, describe_result>>
    /\ UNCHANGED <<gate_vars, other>>

\* _wait_for_deployment: one iteration of the loop
_wait_for_deployment_poll ==
    /\ pc = "wait_deployment"
    /\ LoopRuns(clock, timeout)
    /\ \E resp \in DescribeServicesResponses :
        /\ called' = called \cup {"describe_services"}
        /\ raised_by' = Raised("describe_services", resp)
        /\ IF WatcherPoll(resp) = "sleep"
           THEN /\ response' = NoResponse
                /\ slept_on' = slept_on \cup Shows(resp)
                /\ clock' = Sleep(clock, PollIntervalSeconds)
                /\ UNCHANGED <<log, pc, success, timeout>>
           ELSE /\ response' = resp
                /\ log' = Append(log, Event("watcher", None, WatcherPoll(resp) = "true"))
                /\ AfterWatcher(WatcherPoll(resp) = "true")
    /\ UNCHANGED <<config, listener, listener0, current_target, describe_result>>
    /\ UNCHANGED <<gate_vars, other>>

\* _wait_for_deployment: the loop ends at its deadline and the watcher returns False
_wait_for_deployment_timeout ==
    /\ pc = "wait_deployment"
    /\ ~LoopRuns(clock, timeout)
    /\ log' = Append(log, Event("watcher", None, FALSE))
    /\ AfterWatcher(FALSE)
    /\ UNCHANGED <<config, listener, listener0, current_target, describe_result,
                   response, called, raised_by>>
    /\ UNCHANGED <<gate_vars, other>>

\* _wait_for_healthy_targets(inactive_tg_arn): one iteration of the loop
_wait_for_healthy_targets_poll ==
    /\ pc \in {"wait_healthy_pre", "wait_healthy_post"}
    /\ LoopRuns(clock, timeout)
    /\ LET tg == inactive_tg_arn(config, current_target) IN
       \E resp \in DescribeTargetHealthResponses(tg) :
        /\ called' = called \cup {"describe_target_health"}
        /\ raised_by' = Raised("describe_target_health", resp)
        /\ IF ProbePoll(resp) = "sleep"
           THEN /\ response' = NoResponse
                /\ slept_on' = slept_on \cup Shows(resp)
                /\ clock' = Sleep(clock, PollIntervalSeconds)
                /\ UNCHANGED <<log, pc, success, timeout>>
           ELSE /\ response' = resp
                /\ log' = Append(log, Event("probe", tg, TRUE))
                /\ AfterProbe(TRUE)
    /\ UNCHANGED <<config, listener, listener0, current_target, describe_result>>
    /\ UNCHANGED <<gate_vars, other>>

\* _wait_for_healthy_targets: the loop ends at its deadline and the probe returns False
_wait_for_healthy_targets_timeout ==
    /\ pc \in {"wait_healthy_pre", "wait_healthy_post"}
    /\ ~LoopRuns(clock, timeout)
    /\ log' = Append(log, Event("probe", inactive_tg_arn(config, current_target), FALSE))
    /\ AfterProbe(FALSE)
    /\ UNCHANGED <<config, listener, listener0, current_target, describe_result,
                   response, called, raised_by>>
    /\ UNCHANGED <<gate_vars, other>>

\* _switch_traffic(inactive_tg_arn): a modify_listener that returns has repointed
\* the listener, one that raises has left it as it was.
_switch_traffic ==
    /\ pc = "switch_traffic"
    /\ LET tg == inactive_tg_arn(config, current_target) IN
       \E resp \in ModifyListenerResponses(config.listener_arn, tg) :
        /\ response' = resp
        /\ called' = called \cup {"modify_listener"}
        /\ raised_by' = Raised("modify_listener", resp)
        /\ log' = Append(log, Event("switch", tg, ~resp.err))
        /\ listener' = IF resp.err THEN listener ELSE <<Forward(tg)>>
        /\ AfterSwitch(~resp.err)
    /\ UNCHANGED <<config, listener0, current_target, describe_result>>
    /\ UNCHANGED <<gate_vars, other>>

\* Faulty variant: the probe after the switch gets the probe's default budget.
Settle_DefaultTimeout ==
    /\ pc = "settle"
    /\ EnterWait("wait_healthy_post", ProbeTimeoutMinutes)
    /\ UNCHANGED <<config, listener, listener0, current_target, describe_result,
                   response, log, called, raised_by>>
    /\ UNCHANGED <<gate_vars, other>>

\* time.sleep(60), then _wait_for_healthy_targets(inactive_tg_arn, timeout_minutes=2)
Settle ==
    /\ pc = "settle"
    /\ EnterWait("wait_healthy_post", PostSwitchTimeoutMinutes)
    /\ UNCHANGED <<config, listener, listener0, current_target, describe_result,
                   response, log, called, raised_by>>
    /\ UNCHANGED <<gate_vars, other>>

\* lambda_handler: building the DeploymentConfig (a missing CLUSTER_NAME,
\* SERVICE_NAME or ENVIRONMENT, a DEPLOYMENT_STRATEGY or TIMEOUT_MINUTES that does
\* not parse) or the orchestrator's boto3 clients raises, and the except branch
\* is taken before any cloud API is called.  deploy() itself raises nothing: each
\* of its calls sits in a try/except of its own.
lambda_handler_raises ==
    /\ pc = "idle"
    /\ gpc \in {"idle", "exited"}
    /\ pc' = "raised"
    /\ UNCHANGED <<config, listener, listener0, current_target, describe_result, clock,
                   timeout, response, slept_on, log, called, raised_by, success>>
    /\ UNCHANGED <<gate_vars, other>>

\* What lambda_handler returns: the response of its try branch on what deploy()
\* returned, or that of its except branch.
lambda_handler(raised, ok, cfg) ==
    IF raised
    THEN [statusCode |-> 500, body |-> [success |-> FALSE, error |-> "str(e)"]]
    ELSE [statusCode |-> IF ok THEN 200 ELSE 500,
          body |-> [success |-> ok, environment |-> cfg.environment,
                    strategy |-> cfg.strategy]]

OrchestratorNext ==
    \/ Construct
    \/ lambda_handler_raises
    \/ deploy_direct
    \/ deploy_blue_green
    \/ _wait_for_deployment_poll
    \/ _wait_for_deployment_timeout
    \/ _wait_for_healthy_targets_poll
    \/ _wait_for_healthy_targets_timeout
    \/ _switch_traffic
    \/ Settle

Spec == Init /\ [][OrchestratorNext]_vars

\* A run that is not over keeps executing.
LiveSpec == Spec /\ WF_vars(OrchestratorNext)

\* The listener is a live object of the cloud account: while this run is between
\* its construction and its switch, another holder of the listener (another run's
\* _switch_traffic) repoints it.
ListenerDrift ==
    /\ pc \in {"deploy", "wait_deployment", "wait_healthy_pre", "switch_traffic"}
    /\ \E tg \in TargetGroupArns :
        /\ <<Forward(tg)>> # listener
        /\ listener' = <<Forward(tg)>>
    /\ UNCHANGED <<config, listener0, pc, current_target, describe_result, clock, timeout,
                   response, slept_on, log, called, raised_by, success>>
    /\ UNCHANGED <<gate_vars, other>>

DriftNext == OrchestratorNext \/ ListenerDrift

\* One orchestration run on a listener that others repoint meanwhile.
DriftSpec == Init /\ [][DriftNext]_vars

\* ------------------------------------------------ a second, concurrent run
\* Another invocation with the same configuration, on the same service and
\* listener, while this run is under way.  Its steps that change or read what the
\* two runs share are modelled; its watcher and its probes, which only read the
\* service and the target group, are taken to have returned true when it switches.

\* __init__ of the second run: it classifies the active slot from the listener as
\* it is now.
other_Construct ==
    /\ other.pc = "idle"
    /\ pc \notin {"idle", "raised"}
    /\ config.strategy = "blue_green"
    /\ \E resp \in DescribeListenersResponses(config.listener_arn, listener) :
        other' = [pc |-> "deploy",
                  current_target |-> _get_current_target_group(config, resp),
                  switched_at |-> 0]
    /\ UNCHANGED <<config, listener, listener0, pc, current_target, describe_result, clock,
                   timeout, response, slept_on, log, called, raised_by, success>>
    /\ UNCHANGED gate_vars

\* Faulty variant: the second run holds its update until this run is over.
other_deploy_blue_green_Serialized ==
    /\ other.pc = "deploy"
    /\ pc = "done"
    /\ other' = [other EXCEPT !.pc = "updated"]
    /\ UNCHANGED <<config, listener, listener0, pc, current_target, describe_result, clock,
                   timeout, response, slept_on, log, called, raised_by, success>>
    /\ UNCHANGED gate_vars

\* deploy_blue_green of the second run, up to and including its
\* _update_service(inactive_tg_arn)
other_deploy_blue_green ==
    /\ other.pc = "deploy"
    /\ \E resp \in UpdateServiceResponses :
        other' = IF resp.err THEN OtherDone ELSE [other EXCEPT !.pc = "updated"]
    /\ UNCHANGED <<config, listener, listener0, pc, current_target, describe_result, clock,
                   timeout, response, slept_on, log, called, raised_by, success>>
    /\ UNCHANGED gate_vars

\* _switch_traffic(inactive_tg_arn) of the second run
other_switch_traffic ==
    /\ other.pc = "updated"
    /\ LET tg == inactive_tg_arn(config, other.current_target) IN
       \E resp \in ModifyListenerResponses(config.listener_arn, tg) :
        IF resp.err
        THEN /\ other' = OtherDone
             /\ UNCHANGED listener
        ELSE /\ other' = [other EXCEPT !.pc = "switched", !.switched_at = Len(log)]
             /\ listener' = <<Forward(tg)>>
    /\ UNCHANGED <<config, listener0, pc, current_target, describe_result, clock,
                   timeout, response, slept_on, log, called, raised_by, success>>
    /\ UNCHANGED gate_vars

ConcurrentNext ==
    \/ OrchestratorNext
    \/ other_Construct
    \/ other_deploy_blue_green
    \/ other_switch_traffic

\* Two runs with no serialization between them, on a listener that forwards to
\* tg-a when the first starts.
ConcurrentInit == Init /\ listener = <<Forward("tg-a")>>

ConcurrentSpec == ConcurrentInit /\ [][ConcurrentNext]_vars

\* ================================================= the pre-flight health gate
Environments == {"dev", "staging", "prod"}

Outcome(passed, text, detail) ==
    [passed |-> passed, message |-> [text |-> text, detail |-> detail]]

\* An HTTP request of the gate: a response, or one of the exceptions of requests.
HttpResponse(status_code) == [kind |-> "response", status_code |-> status_code]
HttpRaised(kind) == [kind |-> kind]

\* check_atlantis_api on what the GET of /healthz did
check_atlantis_api(r) ==
    IF r.kind = "response" THEN
        IF r.status_code = 200 THEN Outcome(TRUE, "Atlantis API responding normally", <<>>)
        ELSE Outcome(FALSE, "API returned status", <<>>)
    ELSE IF r.kind = "Timeout" THEN Outcome(FALSE, "API timeout", <<>>)
    ELSE IF r.kind = "ConnectionError" THEN Outcome(FALSE, "Connection failed", <<>>)
    ELSE Outcome(FALSE, "API check failed", <<>>)

\* Faulty variant: a lock registry that cannot be asked blocks the deployment.
check_vaultdb_locks_FailClosed(r) ==
    IF r.kind = "response" THEN
        IF r.status_code = 200 THEN
            IF r.locks = <<>> THEN Outcome(TRUE, "No active locks", <<>>)
            ELSE Outcome(FALSE, "Active locks detected", <<>>)
        ELSE Outcome(FALSE, "Locks endpoint unavailable", <<>>)
    ELSE Outcome(FALSE, "Lock check failed but proceeding", <<>>)

\* Faulty variant: every lock is listed.
LockDetails_All(locks) == [i \in 1..Len(locks) |-> locks[i].project]

\* lock_details: the projects of the first three locks
LockDetails(locks) ==
    [i \in 1..(IF Len(locks) < 3 THEN Len(locks) ELSE 3) |-> locks[i].project]

\* check_vaultdb_locks on what the GET of /locks did
check_vaultdb_locks(r) ==
    IF r.kind = "response" THEN
        IF r.status_code = 200 THEN
            IF r.locks = <<>> THEN Outcome(TRUE, "No active locks", <<>>)
            ELSE Outcome(FALSE, "Active locks detected", LockDetails(r.locks))
        ELSE Outcome(TRUE, "Locks endpoint unavailable", <<>>)
    ELSE Outcome(TRUE, "Lock check failed but proceeding", <<>>)

\* Faulty variant: "at least one" for "exactly one" active deployment.
check_ecs_service_stability_AtLeastOne(r) ==
    IF r.err THEN Outcome(FALSE, "ECS check failed", <<>>)
    ELSE IF r.services = <<>> THEN Outcome(FALSE, "ECS service not found", <<>>)
    ELSE LET service == r.services[1]
             active_deployments ==
                 SelectSeq(service.deployments, LAMBDA d : d.status \in {"PRIMARY", "ACTIVE"})
         IN IF service.status # "ACTIVE" THEN Outcome(FALSE, "Service status", <<>>)
            ELSE IF Len(active_deployments) < 1
                 THEN Outcome(FALSE, "Multiple active deployments", <<>>)
            ELSE IF active_deployments[1].rolloutState # "COMPLETED"
                 THEN Outcome(FALSE, "Deployment state", <<>>)
            ELSE IF service.desiredCount # service.runningCount
                 THEN Outcome(FALSE, "Count mismatch", <<>>)
            ELSE Outcome(TRUE, "ECS service stable", <<>>)

\* check_ecs_service_stability on what describe_services did
check_ecs_service_stability(r) ==
    IF r.err THEN Outcome(FALSE, "ECS check failed", <<>>)
    ELSE IF r.services = <<>> THEN Outcome(FALSE, "ECS service not found", <<>>)
    ELSE LET service == r.services[1]
             deployments == service.deployments
             active_deployments ==
                 SelectSeq(deployments, LAMBDA d : d.status \in {"PRIMARY", "ACTIVE"})
         IN IF service.status # "ACTIVE" THEN Outcome(FALSE, "Service status", <<>>)
            ELSE IF Len(active_deployments) # 1
                 THEN Outcome(FALSE, "Multiple active deployments", <<>>)
            ELSE IF active_deployments[1].rolloutState # "COMPLETED"
                 THEN Outcome(FALSE, "Deployment state", <<>>)
            ELSE IF service.desiredCount # service.runningCount
                 THEN Outcome(FALSE, "Count mismatch", <<>>)
            ELSE Outcome(TRUE, "ECS service stable", <<>>)

\* check_target_group_health on what describe_target_groups and
\* describe_target_health did
check_target_group_health(r) ==
    IF r.err THEN Outcome(FALSE, "Target group check failed", <<>>)
    ELSE IF r.TargetGroups = <<>> THEN Outcome(FALSE, "Target group not found", <<>>)
    ELSE IF SelectSeq(r.states, LAMBDA t : t = "healthy") = <<>>
         THEN Outcome(FALSE, "No healthy targets", <<>>)
    ELSE Outcome(TRUE, "healthy targets", <<>>)

\* check_vault_backup_status: backup_available is the placeholder True
check_vault_backup_status == Outcome(TRUE, "Backup system available", <<>>)

\* Faulty variant: "and" for "or" in the business-hours test, which then never fails.
check_deployment_window_AndForOr(env, now) ==
    IF now.err THEN Outcome(TRUE, "Window check failed but proceeding", <<>>)
    ELSE IF env = "prod" /\ (now.hour < 9 /\ now.hour >= 18)
         THEN Outcome(FALSE, "Outside deployment window", <<>>)
    ELSE IF env = "prod" /\ now.weekday = 4 /\ now.hour >= 15
         THEN Outcome(FALSE, "Friday afternoon deployment", <<>>)
    ELSE IF env = "prod" /\ now.weekday >= 5
         THEN Outcome(FALSE, "Weekend deployment", <<>>)
    ELSE Outcome(TRUE, "Safe deployment window", <<>>)

\* Faulty variant: Friday afternoon starts after 15:59.
check_deployment_window_FridayLate(env, now) ==
    IF now.err THEN Outcome(TRUE, "Window check failed but proceeding", <<>>)
    ELSE IF env = "prod" /\ (now.hour < 9 \/ now.hour >= 18)
         THEN Outcome(FALSE, "Outside deployment window", <<>>)
    ELSE IF env = "prod" /\ now.weekday = 4 /\ now.hour > 15
         THEN Outcome(FALSE, "Friday afternoon deployment", <<>>)
    ELSE IF env = "prod" /\ now.weekday >= 5
         THEN Outcome(FALSE, "Weekend deployment", <<>>)
    ELSE Outcome(TRUE, "Safe deployment window", <<>>)

\* check_deployment_window on what datetime.now() gave (weekday 0 is Monday)
check_deployment_window(env, now) ==
    IF now.err THEN Outcome(TRUE, "Window check failed but proceeding", <<>>)
    ELSE IF env = "prod" /\ (now.hour < 9 \/ now.hour >= 18)
         THEN Outcome(FALSE, "Outside deployment window", <<>>)
    ELSE IF env = "prod" /\ now.weekday = 4 /\ now.hour >= 15
         THEN Outcome(FALSE, "Friday afternoon deployment", <<>>)
    ELSE IF env = "prod" /\ now.weekday >= 5
         THEN Outcome(FALSE, "Weekend deployment", <<>>)
    ELSE Outcome(TRUE, "Safe deployment window", <<>>)

\* The checks list of run_comprehensive_check, in its order.
checks ==
    <<"Atlantis API", "VaultDB Locks", "ECS Service", "Target Groups", "Backup Status",
      "Deployment Window">>

\* ---- what the collaborators can answer to one run of the gate
Datetime(hour, weekday) == [err |-> FALSE, hour |-> hour, weekday |-> weekday]

Service(status, deployments, desired, running) ==
    [status |-> status, deployments |-> deployments, desiredCount |-> desired,
     runningCount |-> running]

Deployment(status, rolloutState) == [status |-> status, rolloutState |-> rolloutState]

\* The services describe_services can show the gate: the stable one, and ones
\* that differ from it in status, in the deployments listed or in the counts.
GateServices ==
    {Service("ACTIVE", <<Deployment("PRIMARY", "COMPLETED")>>, 1, 1),
     Service("ACTIVE", <<Deployment("ACTIVE", "COMPLETED")>>, 1, 1),
     Service("ACTIVE", <<Deployment("PRIMARY", "COMPLETED"), Deployment("INACTIVE", "COMPLETED")>>, 1, 1),
     Service("DRAINING", <<Deployment("PRIMARY", "COMPLETED")>>, 1, 1),
     Service("ACTIVE", <<Deployment("PRIMARY", "IN_PROGRESS")>>, 1, 1),
     Service("ACTIVE", <<Deployment("PRIMARY", "COMPLETED"), Deployment("ACTIVE", "COMPLETED")>>, 1, 1),
     Service("ACTIVE", <<>>, 1, 1),
     Service("ACTIVE", <<Deployment("PRIMARY", "COMPLETED")>>, 2, 1)}

\* check_func() raises: an exception gets past the check's own try/except.
CheckRaises == [raises |-> TRUE]

GateInputs(check_name) ==
    CASE check_name = "Atlantis API" ->
            {HttpResponse(200), HttpResponse(503), HttpRaised("Timeout")}
      [] check_name = "VaultDB Locks" ->
            {[kind |-> "response", status_code |-> 200, locks |-> <<>>],
             [kind |-> "response", status_code |-> 200, locks |-> <<[project |-> "infra"]>>],
             [kind |-> "response", status_code |-> 200, locks |->
                 <<[project |-> "infra"], [project |-> "vault"], [project |-> "dns"],
                   [project |-> "iam"]>>],
             [kind |-> "response", status_code |-> 404, locks |-> <<>>],
             HttpRaised("ConnectionError")}
      [] check_name = "ECS Service" ->
            {[err |-> TRUE], [err |-> FALSE, services |-> <<>>]}
                \cup {[err |-> FALSE, services |-> <<svc>>] : svc \in GateServices}
      [] check_name = "Target Groups" ->
            {[err |-> TRUE],
             [err |-> FALSE, TargetGroups |-> <<"tg-a">>, states |-> <<"healthy", "unhealthy">>],
             [err |-> FALSE, TargetGroups |-> <<"tg-a">>, states |-> <<"unhealthy">>]}
      [] check_name = "Backup Status" -> {NoResponse, CheckRaises}
      [] check_name = "Deployment Window" ->
            {[err |-> TRUE]}
                \cup {Datetime(h, d) : h \in {8, 9, 14, 15, 17, 18}, d \in {0, 4, 5, 6}}

\* check_func() of the check called check_name
CheckFunc(check_name, env, input) ==
    CASE check_name = "Atlantis API" -> check_atlantis_api(input)
      [] check_name = "VaultDB Locks" -> check_vaultdb_locks(input)
      [] check_name = "ECS Service" -> check_ecs_service_stability(input)
      [] check_name = "Target Groups" -> check_target_group_health(input)
      [] check_name = "Backup Status" -> check_vault_backup_status
      [] check_name = "Deployment Window" -> check_deployment_window(env, input)

\* Faulty variant: a check that raises is recorded as passed.
TryCheck_ExceptionPasses(check_name, env, input) ==
    IF input = CheckRaises THEN Outcome(TRUE, "Exception", <<>>)
    ELSE CheckFunc(check_name, env, input)

\* The try/except around check_func() in the loop of run_comprehensive_check: a
\* check that raises is recorded as failed.
TryCheck(check_name, env, input) ==
    IF input = CheckRaises THEN Outcome(FALSE, "Exception", <<>>)
    ELSE CheckFunc(check_name, env, input)

\* Faulty variant: all_passed is overwritten by each check instead of only cleared.
RecordCheck_LastWins(check_name, outcome) ==
    /\ results' = Append(results, [check |-> check_name, passed |-> outcome.passed,
                                   message |-> outcome.message])
    /\ all_passed' = outcome.passed

\* The body of the loop of run_comprehensive_check on one check's outcome.
RecordCheck(check_name, outcome) ==
    /\ results' = Append(results, [check |-> check_name, passed |-> outcome.passed,
                                   message |-> outcome.message])
    /\ all_passed' = (IF ~outcome.passed THEN FALSE ELSE all_passed)

\* Faulty variant: the first attempt is delayed too.
RetryDelay_Always(attempt_no) == RetryDelaySeconds

\* "if attempt > 0: time.sleep(10)": the delay before attempt number attempt_no.
RetryDelay(attempt_no) == IF attempt_no > 0 THEN RetryDelaySeconds ELSE 0

\* sys.exit(code): the process and its memory are gone.
Exit(code) ==
    /\ gpc' = "exited"
    /\ exit_code' = code
    /\ environment' = None
    /\ retry_count' = 0
    /\ attempt' = 0
    /\ results' = <<>>
    /\ all_passed' = TRUE
    /\ now_dt' = NoDatetime
    /\ answers' = <<>>
    /\ waited' = 0

\* main(): parse_args and the construction of the checker.  The caller starts
\* the gate before the deployment.
main ==
    /\ gpc = "idle"
    /\ pc = "idle"
    /\ \E env \in Environments, r \in 0..MaxRetryCount :
        /\ environment' = env
        /\ retry_count' = r
    /\ attempt' = 0
    /\ gpc' = "loop"
    /\ UNCHANGED <<results, all_passed, now_dt, answers, waited, exit_code>>
    /\ UNCHANGED orch_vars

\* main(): "for attempt in range(args.retry_count)" starts an attempt (after
\* time.sleep(10) when it is not the first) and run_comprehensive_check begins
main_attempt ==
    /\ gpc = "loop"
    /\ attempt < retry_count
    /\ results' = <<>>
    /\ all_passed' = TRUE
    /\ gpc' = "checking"
    /\ waited' = Sleep(waited, RetryDelay(attempt))
    /\ UNCHANGED <<environment, retry_count, attempt, now_dt, answers, exit_code>>
    /\ UNCHANGED orch_vars

\* run_comprehensive_check: one iteration of "for check_name, check_func in checks"
run_comprehensive_check_step ==
    /\ gpc = "checking"
    /\ Len(results) < Len(checks)
    /\ LET check_name == checks[Len(results) + 1] IN
       \E input \in GateInputs(check_name) :
        /\ RecordCheck(check_name, TryCheck(check_name, environment, input))
        /\ now_dt' = IF check_name = "Deployment Window" THEN input ELSE now_dt
        /\ answers' = Append(answers, input)
    /\ UNCHANGED <<gpc, environment, retry_count, attempt, waited, exit_code>>
    /\ UNCHANGED orch_vars

\* run_comprehensive_check returns all_passed to main
run_comprehensive_check_return ==
    /\ gpc = "checking"
    /\ Len(results) = Len(checks)
    /\ gpc' = "returned"
    /\ UNCHANGED <<environment, retry_count, attempt, results, all_passed, now_dt,
                   answers, waited, exit_code>>
    /\ UNCHANGED orch_vars

\* main(): "if success: sys.exit(0)", else the next iteration; the locals of the
\* run_comprehensive_check that returned are gone, its result is main's success
main_after_check ==
    /\ gpc = "returned"
    /\ IF all_passed
       THEN Exit(0)
       ELSE /\ attempt' = attempt + 1
            /\ gpc' = "loop"
            /\ results' = <<>>
            /\ now_dt' = NoDatetime
            /\ answers' = <<>>
            /\ UNCHANGED <<environment, retry_count, all_passed, waited, exit_code>>
    /\ UNCHANGED orch_vars

\* main(): the loop is over, sys.exit(1)
main_exhausted ==
    /\ gpc = "loop"
    /\ ~(attempt < retry_count)
    /\ Exit(1)
    /\ UNCHANGED orch_vars

GateNext ==
    \/ main
    \/ main_attempt
    \/ run_comprehensive_check_step
    \/ run_comprehensive_check_return
    \/ main_after_check
    \/ main_exhausted

\* The gate's CLI alone: the orchestrator is not started and the listener, which
\* the gate does not read, is fixed.
GateInit == Init /\ listener = <<Forward("tg-a")>>

GateSpec == GateInit /\ [][GateNext]_vars

\* Both scripts, under a caller that runs one at a time, the gate first if at all.
PipelineNext == GateNext \/ OrchestratorNext

\* The listener forwards to tg-a when the pipeline starts.
PipelineInit == Init /\ listener = <<Forward("tg-a")>>

PipelineSpec == PipelineInit /\ [][PipelineNext]_vars

\* =================================================================== claims
Ops(op) == {i \in 1..Len(log) : log[i].op = op}
Done == pc = "done"
\* lambda_handler has returned, from its try branch or from its except branch.
Terminated == pc \in {"done", "raised"}
\* The response lambda_handler has returned.
LambdaResponse == lambda_handler(pc = "raised", success, config)
BlueGreen == config.strategy = "blue_green"
\* The target group the listener forwarded to when the run started.
Active0 == ForwardTarget(listener0)

\* C1: in a run with strategy direct no Traffic Switch (modify_listener) call is
\* issued, whatever update_service and the watcher return.
C1_DirectNeverSwitches ==
    config.strategy = "direct" => Ops("switch") = {} /\ "modify_listener" \notin called

\* A direct run has gone through the updater and the watcher and has returned.
C1_Witness ==
    /\ config.strategy = "direct"
    /\ Done
    /\ Ops("update") # {}
    /\ Ops("watcher") # {}

\* C2 as stated: in a blue/green run the target group passed to update_service is
\* never the one the listener was forwarding to when the run started.
C2_Original ==
    BlueGreen => \A i \in Ops("update") : log[i].tg # None => log[i].tg # Active0

\* C2 amended: that holds when describe_listeners answered and the blue and green
\* target groups differ; when describe_listeners failed the slot is taken to be
\* blue and the update is bound to the green target group, whatever the listener
\* forwards to.
C2_UpdatesInactiveWhenClassified ==
    BlueGreen =>
        \A i \in Ops("update") :
            /\ (describe_result = "ok" /\ config.blue_tg_arn # config.green_tg_arn /\ log[i].tg # None)
                   => log[i].tg # Active0
            /\ describe_result = "error" => log[i].tg = config.green_tg_arn

\* A blue/green run whose listener forwarded to one of its two distinct slots was
\* classified from the listener's answer and has issued its update with a binding.
C2_Witness ==
    /\ BlueGreen
    /\ describe_result = "ok"
    /\ config.blue_tg_arn # config.green_tg_arn
    /\ Active0 \in {config.blue_tg_arn, config.green_tg_arn}
    /\ \E i \in Ops("update") : log[i].tg # None

\* C4: in a blue/green run a Traffic Switch call is issued only after the watcher
\* of the run has returned success; a watcher that failed or timed out ends the
\* run with success = false and no Traffic Switch call.
C4_SwitchOnlyAfterWatcherSuccess ==
    BlueGreen =>
        /\ \A i \in Ops("switch") : \E j \in Ops("watcher") : j < i /\ log[j].ok
        /\ (\E j \in Ops("watcher") : ~log[j].ok)
               => Done /\ ~success /\ Ops("switch") = {} /\ "modify_listener" \notin called

\* A blue/green run has issued its Traffic Switch call.
C4_Witness == BlueGreen /\ Ops("switch") # {}

\* The response the watcher returned on, when the watcher is the last thing logged.
WatcherReturnedOn(ok) ==
    /\ log # <<>>
    /\ log[Len(log)].op = "watcher"
    /\ log[Len(log)].ok = ok
    /\ "deployments" \in DOMAIN response

\* The first deployment with status PRIMARY has rolloutState COMPLETED.
PrimaryCompleted(ds) ==
    \E i \in 1..Len(ds) :
        /\ ds[i].status = "PRIMARY"
        /\ ds[i].rolloutState = "COMPLETED"
        /\ \A j \in 1..(i - 1) : ds[j].status # "PRIMARY"

StatusFailed(ds) == \E i \in 1..Len(ds) : ds[i].status = "FAILED"

\* C5 as stated: a poll that shows a deployment with status FAILED makes the
\* watcher return failure, whatever else the poll shows: it neither keeps polling
\* nor returns success.
C5_Original ==
    /\ (pc = "wait_deployment" => "failed" \notin slept_on)
    /\ ~(WatcherReturnedOn(TRUE) /\ StatusFailed(response.deployments))

\* C5 amended: a poll that shows a deployment with status FAILED ends the watcher
\* at once, with whatever budget left: with success when the first PRIMARY
\* deployment of that same response has rolloutState COMPLETED, with failure
\* otherwise.  The watcher never sleeps on such a poll.
C5_FailFastUnlessPrimaryCompleted ==
    /\ (pc = "wait_deployment" => "failed" \notin slept_on)
    /\ (WatcherReturnedOn(TRUE) /\ StatusFailed(response.deployments))
           => PrimaryCompleted(response.deployments)
    /\ \A ok \in BOOLEAN :
           (/\ WatcherReturnedOn(ok)
            /\ StatusFailed(response.deployments)
            /\ ~PrimaryCompleted(response.deployments)) => ~ok /\ Done /\ ~success

\* The watcher has returned failure on a poll showing a FAILED deployment while
\* budget was left.
C5_Witness ==
    /\ WatcherReturnedOn(FALSE)
    /\ StatusFailed(response.deployments)
    /\ clock + PollIntervalSeconds < timeout

\* The response the probe returned true on, when that is the last thing logged.
ProbeReturnedTrue ==
    /\ log # <<>>
    /\ log[Len(log)].op = "probe"
    /\ log[Len(log)].ok

\* C6: the probe returns true at the first poll made before the deadline whose
\* response has at least one healthy target: it never sleeps on such a response,
\* it does not ask for all targets to be healthy, and it returns true on no
\* other response.
C6_ProbeEarlyExit ==
    /\ (pc \in {"wait_healthy_pre", "wait_healthy_post"} => "healthy" \notin slept_on)
    /\ ProbeReturnedTrue =>
           /\ "states" \in DOMAIN response
           /\ \E i \in 1..Len(response.states) : response.states[i] = "healthy"
           /\ clock < timeout

\* The probe has returned true on a response with a healthy and an unhealthy
\* target, after a poll it slept on.
C6_Witness ==
    /\ ProbeReturnedTrue
    /\ "states" \in DOMAIN response
    /\ \E i \in 1..Len(response.states) : response.states[i] = "unhealthy"
    /\ clock > 0

MissingIdentifier ==
    None \in {config.blue_tg_arn, config.green_tg_arn, config.listener_arn}

\* C8: a blue/green run that lacks the blue target group, the green target group
\* or the listener fails before any cloud API call is made.
C8_Claim ==
    (BlueGreen /\ MissingIdentifier) => called = {} /\ (Done => ~success)

\* C9: every run reaches its terminal state, whatever the cloud APIs answer, and
\* neither polling loop runs past its deadline.
C9_Terminates == <>Terminated /\ [](clock <= timeout)

\* A blue/green run has ended after its probe polled up to the deadline on
\* errors only.
C9_Witness ==
    /\ Done
    /\ log[Len(log)].op = "probe"
    /\ ~log[Len(log)].ok
    /\ slept_on = {"error"}
    /\ clock = timeout

\* The target group of the slot the run took to be inactive.
ClassifiedInactiveTg ==
    IF current_target = "blue" THEN config.green_tg_arn ELSE config.blue_tg_arn

SuccessLog(tg) ==
    <<Event("update", tg, TRUE), Event("watcher", None, TRUE), Event("probe", tg, TRUE),
      Event("switch", tg, TRUE), Event("probe", tg, TRUE)>>

\* C10 as stated: a blue/green run that ends with success has issued one Traffic
\* Switch call, to the target group of the slot the listener was not forwarding to
\* when the run started.
C10_Original ==
    (BlueGreen /\ Done /\ success) =>
        /\ Cardinality(Ops("switch")) = 1
        /\ \A i \in Ops("switch") :
               /\ log[i].tg # Active0
               /\ Active0 = config.blue_tg_arn => log[i].tg = config.green_tg_arn
               /\ Active0 = config.green_tg_arn => log[i].tg = config.blue_tg_arn

\* C10 amended: a blue/green run that ends with success has updated, probed,
\* switched to and probed again one target group, in that order and once each:
\* the target group of the slot the run classified as inactive.  The listener
\* forwards to it at the end.  It is the group the listener was not forwarding to
\* at the start when describe_listeners answered and blue and green differ.
C10_SuccessfulBlueGreenRun ==
    (BlueGreen /\ Done /\ success) =>
        /\ ClassifiedInactiveTg # None
        /\ log = SuccessLog(ClassifiedInactiveTg)
        /\ ForwardTarget(listener) = ClassifiedInactiveTg
        /\ (describe_result = "ok" /\ config.blue_tg_arn # config.green_tg_arn) =>
               /\ ClassifiedInactiveTg # Active0
               /\ Active0 = config.blue_tg_arn => ClassifiedInactiveTg = config.green_tg_arn
               /\ Active0 = config.green_tg_arn => ClassifiedInactiveTg = config.blue_tg_arn

\* A blue/green run whose listener forwarded to blue has ended with success.
C10_Witness ==
    /\ BlueGreen
    /\ Done
    /\ success
    /\ Active0 = config.blue_tg_arn
    /\ describe_result = "ok"

\* C3 as stated: no Service Updater and no Traffic Switch call is issued unless
\* the Health Gate has been run first and has passed.
C3_Original ==
    (Ops("update") # {} \/ Ops("switch") # {}) => gpc = "exited" /\ exit_code = 0

AllPassed(rs) == \A i \in 1..Len(rs) : rs[i].passed

OutsideBusinessHours(now) == ~now.err /\ (now.hour < 9 \/ now.hour >= 18)

\* C3 amended: the orchestrator does not consult the gate, the gate's verdict is
\* the caller's to act on.  The gate's CLI exits with 0 only from an attempt whose
\* six checks all passed, and an attempt made in prod outside 09:00-18:00 (at
\* 20:00, say) fails its deployment-window check and never ends in exit code 0.
C3_GateVerdictIsTheCallers ==
    /\ [][(gpc' = "exited" /\ gpc # "exited" /\ exit_code' = 0)
              => gpc = "returned" /\ Len(results) = 6 /\ AllPassed(results)]_vars
    /\ [](gpc = "returned" /\ environment = "prod" /\ OutsideBusinessHours(now_dt)
              => /\ ~results[6].passed
                 /\ ~all_passed)
    /\ [][(gpc = "returned" /\ ~all_passed) => ~(gpc' = "exited" /\ exit_code' = 0)]_vars

\* The gate has failed and exited with 1, and an orchestration run has issued its
\* update all the same.
C3_Witness ==
    /\ gpc = "exited"
    /\ exit_code = 1
    /\ Ops("update") # {}

FailOpenTexts ==
    {"Locks endpoint unavailable", "Lock check failed but proceeding",
     "Window check failed but proceeding"}

\* C7: run_comprehensive_check returns the AND of the six checks' pass flags: it
\* returns false exactly when a check reports failure, and a lock registry that
\* cannot be reached or a deployment-window tooling error is reported as a pass.
C7_GateIsConjunction ==
    /\ gpc \in {"checking", "returned"} =>
           /\ all_passed = AllPassed(results)
           /\ \A i \in 1..Len(results) :
                  /\ results[i].check = checks[i]
                  /\ results[i].message.text \in FailOpenTexts => results[i].passed
    /\ gpc = "returned" => Len(results) = 6

\* A run of the six checks has returned true with the lock registry unreachable
\* and the window check's clock failing.
C7_Witness ==
    /\ gpc = "returned"
    /\ all_passed
    /\ results[2].message.text = "Lock check failed but proceeding"
    /\ results[6].message.text = "Window check failed but proceeding"

\* C11: when the watcher reports failure in a blue/green run, the response
\* returned to the caller has success = false and carries an error detail.
C11_Claim ==
    (BlueGreen /\ Done /\ \E j \in Ops("watcher") : ~log[j].ok) =>
        /\ ~LambdaResponse.body.success
        /\ "error" \in DOMAIN LambdaResponse.body

\* C12: the response lambda_handler returns has statusCode 200 exactly when the
\* body's success flag is true and 500 otherwise, and its body has success,
\* environment and strategy on every path, the one through the except branch
\* included.
C12_Claim ==
    Terminated =>
        /\ LambdaResponse.statusCode = (IF LambdaResponse.body.success THEN 200 ELSE 500)
        /\ {"success", "environment", "strategy"} \subseteq DOMAIN LambdaResponse.body

\* The check at position i of the running attempt has been made.
Checked(i) == gpc \in {"checking", "returned"} /\ Len(results) >= i

\* The request to the lock registry raised or answered with another status than 200.
LockRegistryUnavailable(r) == r.kind # "response" \/ r.status_code # 200

\* C13: when the request to the lock registry raises or answers with a status
\* other than 200, check_vaultdb_locks reports a pass with a diagnostic saying that
\* the registry could not be asked, and the result of the gate is the AND of the
\* other five checks.
C13_LockFailOpen ==
    (Checked(2) /\ LockRegistryUnavailable(answers[2])) =>
        /\ results[2].passed
        /\ results[2].message.text
               \in {"Locks endpoint unavailable", "Lock check failed but proceeding"}
        /\ gpc = "returned" =>
               all_passed = (\A i \in {1, 3, 4, 5, 6} : results[i].passed)

\* A run of the six checks has returned false with the lock registry refusing
\* the connection: the service-stability check failed.
C13_Witness ==
    /\ gpc = "returned"
    /\ answers[2].kind = "ConnectionError"
    /\ ~results[3].passed
    /\ ~all_passed

\* The step in which the gate's CLI exits with code.
ExitsWith(code) == gpc # "exited" /\ gpc' = "exited" /\ exit_code' = code

\* C14: main runs the six checks at most retry_count times, each attempt after
\* the first after a delay of RetryDelaySeconds; it exits with 0 at the first
\* attempt that passes, and with 1 exactly when retry_count attempts have failed
\* (none at all when retry_count is 0).
C14_RetriesUpToRetryCount ==
    /\ [](attempt <= retry_count)
    /\ [](gpc \in {"checking", "returned"} =>
              /\ attempt < retry_count
              /\ waited = RetryDelaySeconds * attempt)
    /\ [][attempt' = attempt + 1 => gpc = "returned" /\ ~all_passed]_vars
    /\ [][ExitsWith(0) => gpc = "returned" /\ all_passed]_vars
    /\ [][(gpc = "returned" /\ all_passed) => ExitsWith(0)]_vars
    /\ [][ExitsWith(1) => gpc = "loop" /\ attempt = retry_count]_vars
    /\ [][(gpc = "loop" /\ attempt = retry_count) => ExitsWith(1)]_vars

\* The second attempt of a gate run has passed, after one delay.
C14_Witness ==
    /\ gpc = "returned"
    /\ attempt = 1
    /\ all_passed
    /\ waited = RetryDelaySeconds

\* Monday to Friday, from 09:00 to 17:59, Friday from 15:00 on excepted.
InDeploymentWindow(now) ==
    /\ now.weekday \in 0..4
    /\ 9 <= now.hour
    /\ now.hour < 18
    /\ ~(now.weekday = 4 /\ now.hour >= 15)

\* C15: in prod the deployment-window check passes exactly when the local time is
\* a weekday with 9 <= hour < 18 and not a Friday with hour >= 15; in every other
\* environment it passes at every weekday and hour.
C15_DeploymentWindow ==
    (Checked(6) /\ ~answers[6].err) =>
        results[6].passed =
            (IF environment = "prod" THEN InDeploymentWindow(answers[6]) ELSE TRUE)

\* The window check has failed in prod on a Friday at 15:00.
C15_Witness ==
    /\ Checked(6)
    /\ environment = "prod"
    /\ answers[6] = Datetime(15, 4)
    /\ ~results[6].passed

\* The service exists and is ACTIVE, one of its deployments is PRIMARY or ACTIVE,
\* that one is COMPLETED, and the desired count is the running count.
StableService(r) ==
    /\ ~r.err
    /\ r.services # <<>>
    /\ LET svc == r.services[1]
           active == {i \in 1..Len(svc.deployments) :
                          svc.deployments[i].status \in {"PRIMARY", "ACTIVE"}}
       IN /\ svc.status = "ACTIVE"
          /\ Cardinality(active) = 1
          /\ \A i \in active : svc.deployments[i].rolloutState = "COMPLETED"
          /\ svc.desiredCount = svc.runningCount

\* C16: the service-stability check passes if and only if the service exists, its
\* status is ACTIVE, exactly one of its deployments is PRIMARY or ACTIVE, that
\* deployment's rolloutState is COMPLETED and desiredCount equals runningCount; a
\* describe_services that raises makes it fail.
C16_ServiceStability ==
    Checked(3) => results[3].passed = StableService(answers[3])

\* The service-stability check has failed on a service with two active
\* deployments, both completed.
C16_Witness ==
    /\ Checked(3)
    /\ ~answers[3].err
    /\ answers[3].services # <<>>
    /\ Len(answers[3].services[1].deployments) = 2
    /\ \A i \in 1..2 : answers[3].services[1].deployments[i].status \in {"PRIMARY", "ACTIVE"}
    /\ ~results[3].passed

\* What describe_listeners answers on the listener as it is now, when it ends as
\* it did in __init__.
ListenerAnswer ==
    IF describe_result = "error" THEN ApiError
    ELSE [err |-> FALSE, DefaultActions |-> listener]

C18_SwitchFailureEndsRun ==
    BlueGreen =>
        /\ (\E i \in Ops("switch") : ~log[i].ok) =>
               /\ Done
               /\ ~success
               /\ log[Len(log)].op = "switch"
               /\ listener = listener0
        /\ (Done /\ success) => \E i \in Ops("switch") : log[i].ok

\* A modify_listener issued with a listener and a target group has failed.
C18_Witness ==
    /\ BlueGreen
    /\ config.listener_arn # None
    /\ \E i \in Ops("switch") : ~log[i].ok /\ log[i].tg # None

\* The probe that precedes the switch has returned false.
PreSwitchProbeFailed ==
    \E i \in Ops("probe") : ~log[i].ok /\ ~(\E j \in Ops("switch") : j < i)

\* C19: in a blue/green run, a rejected update_service or a pre-switch probe that
\* returns false ends the run with success = false, without a modify_listener
\* call and with the listener as it was at the start; the pre-switch probe is
\* made on the target group that was passed to _update_service.
C19_NoSwitchAfterEarlyFailure ==
    BlueGreen =>
        /\ ((\E i \in Ops("update") : ~log[i].ok) \/ PreSwitchProbeFailed) =>
               /\ Done
               /\ ~success
               /\ Ops("switch") = {}
               /\ "modify_listener" \notin called
               /\ listener = listener0
        /\ \A i \in Ops("probe") : \A j \in Ops("update") : log[i].tg = log[j].tg

\* The pre-switch probe of a target group has returned false after an accepted
\* update bound to that group.
C19_Witness ==
    /\ BlueGreen
    /\ PreSwitchProbeFailed
    /\ log[1].op = "update"
    /\ log[1].ok
    /\ log[1].tg # None

\* The target group of the slot that is inactive on the listener as it is now.
InactiveTgNow ==
    inactive_tg_arn(config,
        _get_current_target_group(config, [err |-> FALSE, DefaultActions |-> listener]))

\* C20: the listener is read again at each decision point: the target group that
\* receives the update, and the destination of the Traffic Switch, are those of
\* the slot that is inactive on the listener as it is when the update, or the
\* switch, is issued.
C20_Claim ==
    [][(/\ BlueGreen
        /\ describe_result = "ok"
        /\ pc \in {"deploy", "switch_traffic"}
        /\ Len(log') = Len(log) + 1)
           => log'[Len(log')].tg = InactiveTgNow]_vars

\* C21 as stated: a run in which update_service, describe_services or
\* modify_listener raised at least once never ends with success.
C21_Original ==
    (Done /\ success) =>
        raised_by \cap {"update_service", "describe_services", "modify_listener"} = {}

\* C21 amended: an update_service or a modify_listener that raises ends the run
\* with success = false.  A describe_services that raises inside the watcher does
\* not end the watcher: it sleeps one interval and polls again, and the run can
\* still succeed, on a later poll that shows the PRIMARY deployment COMPLETED.
C21_FailClosedOnUpdateAndSwitch ==
    /\ [](raised_by \cap {"update_service", "modify_listener"} # {} => Done /\ ~success)
    /\ [](WatcherReturnedOn(TRUE) => PrimaryCompleted(response.deployments))
    /\ [][(pc = "wait_deployment" /\ "describe_services" \in raised_by' \ raised_by) =>
              /\ pc' = pc
              /\ log' = log
              /\ clock' = clock + PollIntervalSeconds]_vars

\* A run has ended with success although describe_services raised in its watcher.
C21_Witness ==
    /\ Done
    /\ success
    /\ "describe_services" \in raised_by

\* The target group the second run deploys to.
OtherTg == inactive_tg_arn(config, other.current_target)

\* C22: nothing in the orchestrator serializes two runs on the same service and
\* listener: whatever position this run is at, a second run that has classified
\* the slot can issue its update and, past that, its switch, and this run can
\* issue its own.  So both runs can take the same slot as inactive and both
\* update it, and a run can update a slot after the other run has switched the
\* listener onto it.
C22_RunsAreNotSerialized ==
    /\ other.pc = "deploy" => ENABLED other_deploy_blue_green
    /\ other.pc = "updated" => ENABLED other_switch_traffic
    /\ (pc = "deploy" /\ BlueGreen) => ENABLED deploy_blue_green

\* Both runs have classified green as the inactive slot and both have updated
\* it; this run issued its update after the second run had switched the listener
\* onto that slot.
C22_Witness ==
    /\ BlueGreen
    /\ describe_result = "ok"
    /\ config.blue_tg_arn = "tg-a"
    /\ config.green_tg_arn = "tg-b"
    /\ other.pc = "switched"
    /\ other.current_target = current_target
    /\ ForwardTarget(listener) = OtherTg
    /\ \E i \in Ops("update") :
           /\ log[i].ok
           /\ log[i].tg = OtherTg
           /\ i > other.switched_at

\* The probe that follows the switch has returned false.
PostSwitchProbeFailed ==
    \E i \in Ops("probe") : ~log[i].ok /\ \E j \in Ops("switch") : j < i

\* C23: after a Traffic Switch that succeeded the run settles and probes the
\* target group it switched to with the short budget (PostSwitchTimeoutMinutes);
\* when that probe returns false the run ends with success = false, the switch
\* stays the only modify_listener call of the run, and the listener keeps
\* forwarding to the newly deployed target group.
C23_NoRevertAfterFailedVerification ==
    BlueGreen =>
        /\ pc \in {"settle", "wait_healthy_post"} =>
               /\ log[Len(log)] = Event("switch", ClassifiedInactiveTg, TRUE)
               /\ listener = <<Forward(ClassifiedInactiveTg)>>
        /\ pc = "wait_healthy_post" => timeout = PostSwitchTimeoutMinutes * 60
        /\ PostSwitchProbeFailed =>
               /\ Done
               /\ ~success
               /\ Cardinality(Ops("switch")) = 1
               /\ log[Len(log)] = Event("probe", ClassifiedInactiveTg, FALSE)
               /\ listener = <<Forward(ClassifiedInactiveTg)>>

\* A run has ended on a failed probe after its switch, on a listener that was
\* forwarding elsewhere when the run started.
C23_Witness ==
    /\ BlueGreen
    /\ PostSwitchProbeFailed
    /\ listener # listener0

\* C24: a run calls update_service at most once and modify_listener at most
\* once, a failed step is not tried again, and once deploy() has returned the
\* run takes no further step: no cloud API is called any more.
C24_NothingIsRetried ==
    /\ Cardinality(Ops("update")) <= 1
    /\ Cardinality(Ops("switch")) <= 1
    /\ Done => ~ENABLED OrchestratorNext

\* A run has ended on an update_service that was rejected, its only call.
C24_Witness ==
    /\ Done
    /\ ~success
    /\ Len(log) = 1
    /\ log[1].op = "update"
    /\ ~log[1].ok

\* C25: on every attempt the six checks run in the order API, locks, service,
\* target groups, backup, window, whatever the earlier ones reported; a check
\* that raises is recorded as failed and the checks after it still run; the
\* report that is returned has six entries.
C25_AllSixChecksRun ==
    /\ gpc \in {"checking", "returned"} =>
           /\ Len(results) <= 6
           /\ Len(answers) = Len(results)
           /\ \A i \in 1..Len(results) :
                  /\ results[i].check =
                         <<"Atlantis API", "VaultDB Locks", "ECS Service", "Target Groups",
                           "Backup Status", "Deployment Window">>[i]
                  /\ answers[i] = CheckRaises =>
                         /\ ~results[i].passed
                         /\ ~all_passed
    /\ (gpc = "checking" /\ Len(results) < 6) =>
           /\ ENABLED run_comprehensive_check_step
           /\ ~ENABLED run_comprehensive_check_return
    /\ gpc = "returned" => Len(results) = 6

\* A run of the six checks has returned with the first check failed, the fifth
\* one having raised, and the sixth passed.
C25_Witness ==
    /\ gpc = "returned"
    /\ ~results[1].passed
    /\ answers[5] = CheckRaises
    /\ results[6].passed

\* C29: when the lock registry answers 200 with locks, the lock check fails, and
\* so does the gate, and its diagnostic lists the first min(3, number of locks)
\* locks in the registry's order; with no lock the check passes.
C29_LockDetailsCapped ==
    (Checked(2) /\ answers[2].kind = "response" /\ answers[2].status_code = 200) =>
        LET locks == answers[2].locks
            detail == results[2].message.detail
        IN IF locks = <<>> THEN results[2].passed
           ELSE /\ ~results[2].passed
                /\ ~all_passed
                /\ Len(detail) = (IF Len(locks) < 3 THEN Len(locks) ELSE 3)
                /\ \A i \in 1..Len(detail) : detail[i] = locks[i].project

\* The lock check has failed on four locks.
C29_Witness ==
    /\ Checked(2)
    /\ answers[2].kind = "response"
    /\ Len(answers[2].locks) = 4
    /\ ~results[2].passed

\* No forward action of the listener, as it was when the run read it, points to
\* the blue or to the green target group.
ForwardsToNeitherSlot ==
    ~\E i \in 1..Len(listener0) :
         /\ listener0[i].Type = "forward"
         /\ listener0[i].TargetGroupArn \in {config.blue_tg_arn, config.green_tg_arn}

\* C26: in a blue/green run whose describe_listeners failed, or whose listener
\* forwards to neither the blue nor the green target group, the active slot is
\* classified as blue and the run goes on: its update is issued, against the
\* green target group.
C26_FallbackToBlue ==
    (BlueGreen /\ (describe_result = "error" \/ ForwardsToNeitherSlot)) =>
        /\ current_target = "blue"
        /\ pc = "deploy" => ENABLED deploy_blue_green
        /\ pc # "deploy" => Ops("update") # {}
        /\ \A i \in Ops("update") : log[i].tg = config.green_tg_arn

\* A blue/green run whose listener forwards to a third target group has issued
\* its update against green.
C26_Witness ==
    /\ BlueGreen
    /\ describe_result = "ok"
    /\ ForwardsToNeitherSlot
    /\ ForwardTarget(listener0) # None
    /\ config.green_tg_arn # None
    /\ Ops("update") # {}

ProbeWaits == {"wait_healthy_pre", "wait_healthy_post"}

\* C27: a poll of the probe made before the deadline either returns true, on a
\* response with a healthy target, or sleeps one interval and leaves the probe
\* running: a describe_target_health that raises never ends it.  The probe
\* returns false only at its deadline, no poll having shown a healthy target.
C27_ProbeErrorsAreRetried ==
    /\ [][(pc \in ProbeWaits /\ clock < timeout) =>
              \/ /\ pc' = pc
                 /\ log' = log
                 /\ clock' = clock + PollIntervalSeconds
              \/ /\ log' = Append(log, Event("probe", ClassifiedInactiveTg, TRUE))
                 /\ "states" \in DOMAIN response'
                 /\ \E i \in 1..Len(response'.states) : response'.states[i] = "healthy"]_vars
    /\ [](pc \in ProbeWaits => "healthy" \notin slept_on)
    /\ []((log # <<>> /\ log[Len(log)].op = "probe" /\ ~log[Len(log)].ok) =>
              /\ clock >= timeout
              /\ "healthy" \notin slept_on)

\* The probe before the switch has returned true after a query that raised.
C27_Witness ==
    /\ pc = "switch_traffic"
    /\ ProbeReturnedTrue
    /\ "error" \in slept_on

\* C28: a direct run goes through the update and the watcher only: its
\* update_service has no target-group binding, it calls neither
\* describe_listeners nor describe_target_health nor modify_listener, and when the
\* update was accepted its success flag is the watcher's result.
C28_DirectRun ==
    config.strategy = "direct" =>
        /\ pc \in {"deploy", "wait_deployment", "done"}
        /\ current_target = "main"
        /\ called \subseteq {"update_service", "describe_services"}
        /\ \A i \in 1..Len(log) : log[i].op \in {"update", "watcher"} /\ log[i].tg = None
        /\ Done =>
               IF log[1].ok THEN Len(log) = 2 /\ log[2].op = "watcher" /\ success = log[2].ok
               ELSE Len(log) = 1 /\ ~success

\* A direct run whose update was accepted has ended in failure on its watcher.
C28_Witness ==
    /\ config.strategy = "direct"
    /\ Done
    /\ log[1].ok
    /\ ~success

\* C30: in one poll of the watcher the test for a completed PRIMARY deployment
\* comes before the test for failed deployments: a poll that shows the PRIMARY
\* deployment COMPLETED returns success, a deployment with status FAILED in the
\* same response notwithstanding, and the watcher returns success on no other
\* poll.
C30_CompletedBeforeFailed ==
    /\ pc = "wait_deployment" => "completed" \notin slept_on
    /\ WatcherReturnedOn(TRUE) => PrimaryCompleted(response.deployments)
    /\ WatcherReturnedOn(FALSE) => ~PrimaryCompleted(response.deployments)
    /\ \A i \in Ops("watcher") : log[i].ok => "describe_services" \in called

\* The watcher has returned success on a response that lists the PRIMARY
\* deployment as COMPLETED and another deployment as FAILED.
C30_Witness ==
    /\ WatcherReturnedOn(TRUE)
    /\ StatusFailed(response.deployments)
    /\ PrimaryCompleted(response.deployments)
====
